---- MODULE Spec2Model ----
(***************************************************************************)
(* A model of kml/__init__.py: the normalization pass (format), the        *)
(* spatial index builder (spatial_index and the _spdx_* functions) and the *)
(* coloring pipeline (color, apply_color) and the data lookup (get_data).  *)
(*                                                                         *)
(* A bs4 document is a tree of nodes.  Every node is a record              *)
(*   [kind, prefix, s, kids, mark]                                         *)
(* kind "tag" is a bs4 Tag (prefix, kids used), kind "str" a               *)
(* NavigableString and kind "cdata" a CData (s used: the characters).      *)
(* mark is "" in every state; format uses it for membership of the node    *)
(* in its local lists `destroy` and `strip`.                               *)
(***************************************************************************)
EXTENDS Integers, Sequences, FiniteSets, TLC

VARIABLES
    hist,     \* format: the document before and after each call
    flags,    \* format: the no_empty flag of each call
    pms,      \* spatial_index: the geometry of each Placemark of the document
    scale,    \* spatial_index: its scale argument
    covers,   \* spatial_index: what _spatial_index returned for each Placemark
    index,    \* spatial_index: the dict it returned
    called,   \* spatial_index: it has returned
    cdoc,     \* coloring: the children of the Document element
    tables,   \* coloring: the colorize and icons arguments
    call,     \* coloring: the latest call of color or apply_color
    dpm,      \* get_data: the Data and SimpleData elements of the Placemark
    dcall     \* get_data: the latest call, its argument and how it ended

fvars == <<hist, flags>>
gvars == <<pms, scale, covers, index, called>>
cvars == <<cdoc, tables, call>>
dvars == <<dpm, dcall>>
vars == <<fvars, gvars, cvars, dvars>>

(* ------------------------------ bounds ------------------------------- *)
\* size of the forest below the root element of an input document
MaxSize == 3
\* number of calls of format on one document
MaxRuns == 2
\* size of the geometry of the Placemark whose covering is computed alone
MaxGeomSize == 3
\* total size of the geometries of a document that is indexed
MaxDocSize == 2
\* number of Placemarks of a document that is colored
MaxPms == 2
\* number of Data and SimpleData elements of a Placemark, and of names
\* in a list of names
MaxData == 2

(* ------------------------------ strings ------------------------------ *)
SP == " "
\* the characters of the input texts
Chars == {SP, "a", "<"}

RECURSIVE StringsOfLen(_)
StringsOfLen(n) ==
    IF n = 0 THEN {<<>>}
    ELSE {<<c>> \o t : c \in Chars, t \in StringsOfLen(n - 1)}

\* str.isspace(): at least one character and all of them whitespace
isspace(s) == Len(s) > 0 /\ \A i \in 1..Len(s) : s[i] = SP

RECURSIVE lstrip(_)
lstrip(s) == IF s # <<>> /\ Head(s) = SP THEN lstrip(Tail(s)) ELSE s

RECURSIVE rstrip(_)
rstrip(s) ==
    IF s # <<>> /\ s[Len(s)] = SP THEN rstrip(SubSeq(s, 1, Len(s) - 1)) ELSE s

\* str.strip()
strip(s) == rstrip(lstrip(s))

\* str.replace(k, v) for a one-character k
RECURSIVE replace(_, _, _)
replace(s, k, v) ==
    IF s = <<>> THEN <<>>
    ELSE (IF Head(s) = k THEN v ELSE <<Head(s)>>) \o replace(Tail(s), k, v)

\* REPLACE, in the order its items are iterated (insertion order)
REPLACE ==
    << <<"<", <<"&", "l", "t", ";">> >>,
       <<">", <<"&", "g", "t", ";">> >>,
       <<"&", <<"&", "a", "m", "p", ";">> >> >>

RECURSIVE replace_from(_, _)
replace_from(s, i) ==
    IF i > Len(REPLACE) THEN s
    ELSE replace_from(replace(s, REPLACE[i][1], REPLACE[i][2]), i + 1)

\* _as_html: the replacements are applied one after the other to the
\* running string
_as_html(s) == replace_from(s, 1)

\* any(c in string for c in REPLACE)
has_special(s) ==
    \E i \in 1..Len(REPLACE) : \E j \in 1..Len(s) : s[j] = REPLACE[i][1]

(* ------------------------------- nodes ------------------------------- *)
Tag(p, ks)  == [kind |-> "tag", prefix |-> p, s |-> <<>>, kids |-> ks, mark |-> ""]
NavigableString(t) ==
    [kind |-> "str", prefix |-> "", s |-> t, kids |-> <<>>, mark |-> ""]
CData(t) ==
    [kind |-> "cdata", prefix |-> "", s |-> t, kids |-> <<>>, mark |-> ""]

IsTag(n)  == n.kind = "tag"
IsText(n) == n.kind \in {"str", "cdata"}

\* str(node) of a NavigableString or CData: the characters it holds.  The
\* "<![CDATA[" and "]]>" of a CData are added by output_ready when the tree
\* is serialized, not by str().
str(n) == n.s

CDATA_PREFIX == <<"<", "!", "[", "C", "D", "A", "T", "A", "[">>
CDATA_SUFFIX == <<"]", "]", ">">>
\* the text a node contributes to the serialized document
output_ready(n) ==
    IF n.kind = "cdata" THEN CDATA_PREFIX \o n.s \o CDATA_SUFFIX
    ELSE _as_html(n.s)

(* -------------------------- input documents -------------------------- *)
\* a text node weighs its length (at least 1), an element 1 plus its kids
TextsOfSize(w) ==
    LET ts == (IF w = 1 THEN {<<>>} ELSE {}) \cup StringsOfLen(w)
    IN  {NavigableString(t) : t \in ts} \cup {CData(t) : t \in ts}

\* the forests of size w, from the sets of the forests of sizes 0..w-1
ForestsOfSize(w, smaller) ==
    UNION {{<<t>> \o f : t \in TextsOfSize(k) \cup {Tag("", g) : g \in smaller[k]},
                         f \in smaller[w - k + 1]}
           : k \in 1..w}

\* one definition per size, so that each set is computed once
Forests0 == {<<>>}
Forests1 == IF MaxSize < 1 THEN {} ELSE ForestsOfSize(1, <<Forests0>>)
Forests2 == IF MaxSize < 2 THEN {} ELSE ForestsOfSize(2, <<Forests0, Forests1>>)
Forests3 ==
    IF MaxSize < 3 THEN {} ELSE ForestsOfSize(3, <<Forests0, Forests1, Forests2>>)
Forests4 ==
    IF MaxSize < 4 THEN {}
    ELSE ForestsOfSize(4, <<Forests0, Forests1, Forests2, Forests3>>)
Forests == Forests0 \cup Forests1 \cup Forests2 \cup Forests3 \cup Forests4

RECURSIVE with_prefix(_, _)
with_prefix(n, p) ==
    IF IsTag(n)
    THEN [n EXCEPT !.prefix = p,
                   !.kids = [i \in DOMAIN n.kids |-> with_prefix(n.kids[i], p)]]
    ELSE n

\* the BeautifulSoup object with one root element; the elements of a
\* document either all carry the kml: prefix or none does
Soups ==
    {Tag("", <<with_prefix(Tag("", f), p)>>) : f \in Forests, p \in {"", "kml"}}

(* ------------------------------ format ------------------------------- *)
\* on_string without the elif branch of line 71
on_string_destroy_only(n) ==
    IF isspace(n.s) THEN [n EXCEPT !.mark = "destroy"] ELSE n

\* lines 68-72: a string met by the traversal is recorded in `destroy` when
\* it is whitespace, else in `strip` when it is trimmable
on_string(n) ==
    IF isspace(n.s) THEN [n EXCEPT !.mark = "destroy"]
    ELSE IF strip(n.s) # n.s THEN [n EXCEPT !.mark = "strip"]
    ELSE n

\* lines 74-75
clear_kml_prefix(e) == [e EXCEPT !.prefix = IF @ = "kml" THEN "" ELSE @]

\* line 80: len(str(cdata)) <= len(_as_html(e.string))
cdata_fits(t) == Len(str(CData(t))) <= Len(_as_html(t))

\* lines 76-81.  e.string is the only child when that child is a string
\* (through a chain of only children otherwise, hence the parent test); the
\* setter of e.string clears e and appends a new NavigableString, or a new
\* CData when it is given one.
on_sole_string(e) ==
    IF Len(e.kids) = 1 /\ IsText(e.kids[1]) /\ e.kids[1].s # <<>>
    THEN LET t == strip(e.kids[1].s)
         IN  [e EXCEPT !.kids =
                 IF has_special(t) /\ cdata_fits(t)
                 THEN <<CData(t)>>
                 ELSE <<NavigableString(t)>>]
    ELSE e

\* lines 67-81 below one node: soup.descendants is a pre-order walk along
\* next_element, so the string an element was just given is met after it
RECURSIVE visit(_)
visit(n) ==
    IF IsTag(n)
    THEN LET e == on_sole_string(clear_kml_prefix(n))
         IN  [e EXCEPT !.kids = [i \in DOMAIN e.kids |-> visit(e.kids[i])]]
    ELSE on_string(n)

\* lines 65-81: the walk starts below the soup object
traverse(soup) ==
    [soup EXCEPT !.kids = [i \in DOMAIN soup.kids |-> visit(soup.kids[i])]]

\* lines 82-83: d.extract() for every d in destroy
RECURSIVE extract_destroy(_)
extract_destroy(n) ==
    IF IsTag(n)
    THEN LET alive(k) == k.mark # "destroy"
             ks == SelectSeq(n.kids, alive)
         IN  [n EXCEPT !.kids = [i \in DOMAIN ks |-> extract_destroy(ks[i])]]
    ELSE n

\* lines 84-85: s.replace_with(s.strip()) for every s in strip; the
\* replacement is a plain NavigableString
RECURSIVE replace_strip(_)
replace_strip(n) ==
    IF IsTag(n)
    THEN [n EXCEPT !.kids = [i \in DOMAIN n.kids |-> replace_strip(n.kids[i])]]
    ELSE IF n.mark = "strip" THEN NavigableString(strip(n.s))
    ELSE n

\* the removal of empty elements repeated until no element is empty
RECURSIVE decompose_cascade(_)
decompose_cascade(n) ==
    IF IsTag(n)
    THEN LET below == [i \in DOMAIN n.kids |-> decompose_cascade(n.kids[i])]
             stays(k) == ~(IsTag(k) /\ Len(k.kids) = 0)
         IN  [n EXCEPT !.kids = SelectSeq(below, stays)]
    ELSE n

\* lines 86-89: find_all collects every Tag without contents, then each of
\* them is decomposed
RECURSIVE decompose_empty(_)
decompose_empty(n) ==
    IF IsTag(n)
    THEN LET stays(k) == ~(IsTag(k) /\ Len(k.kids) = 0)
             ks == SelectSeq(n.kids, stays)
         IN  [n EXCEPT !.kids = [i \in DOMAIN ks |-> decompose_empty(ks[i])]]
    ELSE n

\* format(soup, no_empty)
format(soup, no_empty) ==
    LET planned == traverse(soup)
        applied == replace_strip(extract_destroy(planned))
    IN  IF no_empty THEN decompose_empty(applied) ELSE applied


(* --------------------------- python values --------------------------- *)
\* The values the index functions pass around are tuples of ints and sets
\* whose elements are cells (tuples of two ints) or ints.
cell(x, y) == [t |-> "cell", x |-> x, y |-> y]
int(n)     == [t |-> "int", x |-> n, y |-> 0]

PyTuple(items) == [py |-> "tuple", items |-> items, elems |-> {}]
PySet(elems)   == [py |-> "set", items |-> <<>>, elems |-> elems]

\* the values `for x in v` yields, and the ones set.update(v) adds: the
\* items of a tuple, the elements of a set
py_iter(v) ==
    IF v.py = "tuple" THEN {int(v.items[i]) : i \in DOMAIN v.items} ELSE v.elems

(* ----------------------- grid-cell collaborator ---------------------- *)
\* spindex is imported by _cells and is not part of the sources.  The
\* stand-in works on a surface of Extent x Extent coordinate units divided,
\* at scale k, into 2^k columns and 2^k rows; it is exact for paths and rings
\* whose sides are parallel to the axes.
Extent == 3
Scales == {1, 2, 3}
Coords == 0..(Extent - 1)

cell_index(u, k) == (u * (2 ^ k)) \div Extent

\* sx.get_cell(point, scale=): one cell, a tuple of two ints
get_cell(point, k) == PyTuple(<<cell_index(point[1], k), cell_index(point[2], k)>>)

Min(a, b) == IF a < b THEN a ELSE b
Max(a, b) == IF a > b THEN a ELSE b

\* the cells of the straight run from the cell of p to the cell of q
run_cells(p, q, k) ==
    LET a == get_cell(p, k).items
        b == get_cell(q, k).items
    IN  {cell(x, y) : x \in Min(a[1], b[1])..Max(a[1], b[1]),
                      y \in Min(a[2], b[2])..Max(a[2], b[2])}

\* sx.get_cells_1d(points, scale=): the cells the path passes through
get_cells_1d(points, k) ==
    PySet(UNION {run_cells(points[i], points[Min(i + 1, Len(points))], k)
                 : i \in DOMAIN points})

\* sx.get_cells_2d(points, scale=, boundary_cells=): the cells of the region
\* the ring encloses, the cells of the ring itself included
get_cells_2d(points, k, boundary_cells) ==
    LET xs == {get_cell(points[i], k).items[1] : i \in DOMAIN points}
        ys == {get_cell(points[i], k).items[2] : i \in DOMAIN points}
        lo(S) == CHOOSE m \in S : \A n \in S : m <= n
        hi(S) == CHOOSE m \in S : \A n \in S : m >= n
    IN  PySet({cell(x, y) : x \in lo(xs)..hi(xs), y \in lo(ys)..hi(ys)}
              \cup boundary_cells.elems)

(* ----------------------------- geometries ---------------------------- *)
\* A geometry element: kind is its tag name; coordinates the tokens of its
\* <coordinates> text (Point, LineString), each token lon,lat,alt; outer and
\* inners the tokens of the rings of a Polygon; geoms the children of a
\* MultiGeometry.
Geometry(kind, coordinates, outer, inners, geoms) ==
    [kind |-> kind, coordinates |-> coordinates, outer |-> outer,
     inners |-> inners, geoms |-> geoms]

Point(c)           == Geometry("Point", <<c>>, <<>>, <<>>, <<>>)
LineString(cs)     == Geometry("LineString", cs, <<>>, <<>>, <<>>)
Polygon(o, is)     == Geometry("Polygon", <<>>, o, is, <<>>)
MultiGeometry(gs)  == Geometry("MultiGeometry", <<>>, <<>>, <<>>, gs)

\* coords_from_tag with first_n_coords=2: the first two numbers of each token
coords_from_tag(tokens) ==
    [i \in DOMAIN tokens |-> SubSeq(tokens[i], 1, 2)]

\* _cells(points, dim, scale, **named): the collaborator of that dimension
\* (boundary_cells is None where the caller does not pass it)
_cells(points, dim, k, boundary_cells) ==
    CASE dim = 0 -> get_cell(points, k)
      [] dim = 1 -> get_cells_1d(points, k)
      [] dim = 2 -> get_cells_2d(points, k, boundary_cells)

\* lines 380-381: the rim and the fill of one inner boundary
hole_rim(inner, k)  == _cells(coords_from_tag(inner), 1, k, PySet({}))
hole_fill(inner, k) ==
    _cells(coords_from_tag(inner), 2, k, hole_rim(inner, k))

\* the loop of lines 378-382 stopping after the first inner boundary
minus_first_hole(cells, inners, i, k) ==
    IF i > Len(inners) THEN cells
    ELSE cells \ (hole_fill(inners[i], k).elems \ hole_rim(inners[i], k).elems)

\* lines 378-382: the loop over the inner boundaries from the i-th on
RECURSIVE minus_holes(_, _, _, _)
minus_holes(cells, inners, i, k) ==
    IF i > Len(inners) THEN cells
    ELSE minus_holes(
             cells \ (hole_fill(inners[i], k).elems \ hole_rim(inners[i], k).elems),
             inners, i + 1, k)

\* _spdx_pg subtracting the whole fill of each hole
_spdx_pg_minus_fill(pg, k) ==
    PySet(_cells(coords_from_tag(pg.outer), 2, k, PySet({})).elems
          \ UNION {hole_fill(pg.inners[i], k).elems : i \in DOMAIN pg.inners})

\* _spdx_pg
_spdx_pg(pg, k) ==
    PySet(minus_holes(_cells(coords_from_tag(pg.outer), 2, k, PySet({})).elems,
                      pg.inners, 1, k))

\* _spdx_ls
_spdx_ls(ls, k) == _cells(coords_from_tag(ls.coordinates), 1, k, PySet({}))

\* _spdx_pt
_spdx_pt(pt, k) == _cells(coords_from_tag(pt.coordinates)[1], 0, k, PySet({}))

\* the keys of _TAG_TO_FUNCTION in their order
TAG_NAMES == <<"MultiGeometry", "Polygon", "LineString", "Point">>

\* tag.find_all(names): the geometry elements below g, in document order
RECURSIVE below(_)
below(g) ==
    LET RECURSIVE from(_)
        from(i) ==
            IF i > Len(g.geoms) THEN <<>>
            ELSE <<g.geoms[i]>> \o below(g.geoms[i]) \o from(i + 1)
    IN  from(1)

\* _TAG_TO_FUNCTION[geom.name](geom, scale), and _spdx_mg: the update of
\* `cells` with what each element found below mg returns
RECURSIVE dispatch(_, _), _spdx_mg(_, _)
dispatch(g, k) ==
    CASE g.kind = "MultiGeometry" -> _spdx_mg(g, k)
      [] g.kind = "Polygon"       -> _spdx_pg(g, k)
      [] g.kind = "LineString"    -> _spdx_ls(g, k)
      [] g.kind = "Point"         -> _spdx_pt(g, k)

_spdx_mg(mg, k) ==
    LET found == below(mg)
    IN  PySet(UNION {py_iter(dispatch(found[i], k)) : i \in DOMAIN found})

\* _spatial_index(pm, scale): the function of the first name of
\* _TAG_TO_FUNCTION for which pm.find(name) finds an element, applied to
\* that element.  pm holds the one geometry g.
_spatial_index(g, k) ==
    LET inside == <<g>> \o below(g)
        finds(name) == \E i \in DOMAIN inside : inside[i].kind = name
        find(name) ==
            inside[CHOOSE i \in DOMAIN inside :
                      /\ inside[i].kind = name
                      /\ \A j \in 1..(i - 1) : inside[j].kind # name]
        first == CHOOSE n \in DOMAIN TAG_NAMES :
                    /\ finds(TAG_NAMES[n])
                    /\ \A m \in 1..(n - 1) : ~finds(TAG_NAMES[m])
    IN  dispatch(find(TAG_NAMES[first]), k)

\* lines 320-334: the loop of spatial_index from Placemark i on (Placemark
\* i of the model is pms[i-1] of the code)
RECURSIVE index_from(_, _, _, _)
index_from(idx, ps, i, k) ==
    IF i > Len(ps) THEN idx
    ELSE LET cells == py_iter(_spatial_index(ps[i], k))
             keys == DOMAIN idx \cup cells
         IN  index_from(
                 [c \in keys |->
                     (IF c \in DOMAIN idx THEN idx[c] ELSE {})
                     \cup (IF c \in cells THEN {i - 1} ELSE {})],
                 ps, i + 1, k)

\* spatial_index(soup, scale)
spatial_index(ps, k) == index_from(<<>>, ps, 1, k)



(* ------------------------- coloring pipeline ------------------------- *)
\* A child of the Document element: a Style or StyleMap (has_id, id and,
\* for the Styles apply_color builds, parts: its PolyStyle/color,
\* LineStyle/color and IconStyle/Icon/href texts in that order) or a
\* Placemark (has_url: it has a styleUrl child, url: the text of that child).
Elem(tag, has_id, id, has_url, url, parts) ==
    [tag |-> tag, has_id |-> has_id, id |-> id, has_url |-> has_url,
     url |-> url, parts |-> parts]

Style(tag, id)      == Elem(tag, TRUE, id, FALSE, <<>>, <<>>)
StyleNoId(tag)      == Elem(tag, FALSE, <<>>, FALSE, <<>>, <<>>)
Placemark(has, url) == Elem("Placemark", FALSE, <<>>, has, url, <<>>)

\* the value a table holds at a key
entry(table, key) == [table |-> table, key |-> key]

\* _GREEN_ORANGE and _BLURPGRELLOW
_GREEN_ORANGE == [n \in 1..4 |-> entry("_GREEN_ORANGE", n)]
_BLURPGRELLOW == [n \in 1..4 |-> entry("_BLURPGRELLOW", n)]
\* the line color of line 313
LINE_COLOR == entry("7fcccccc", 0)

DIGITS == <<"0", "1", "2", "3", "4", "5", "6", "7", "8", "9">>

\* str(n) for an int n >= 0
RECURSIVE str_int(_)
str_int(n) ==
    IF n < 10 THEN <<DIGITS[n + 1]>>
    ELSE str_int(n \div 10) \o <<DIGITS[(n % 10) + 1]>>

\* int(c) for a one-character string c
int_char(c) == (CHOOSE d \in DOMAIN DIGITS : DIGITS[d] = c) - 1

\* line 297: f'#color{coloring[i]}'
url_of(n) == <<"#", "c", "o", "l", "o", "r">> \o str_int(n)

\* the code point order of the characters of the ids
ORD ==
    [c \in {"0", "1", "2", "3", "4", "5", "6", "7", "8", "9", "c", "l", "o", "r"} |->
        CASE c = "c" -> 99 [] c = "l" -> 108 [] c = "o" -> 111 [] c = "r" -> 114
          [] OTHER -> 48 + int_char(c)]

\* a < b for Python strings
RECURSIVE str_less(_, _)
str_less(a, b) ==
    IF b = <<>> THEN FALSE
    ELSE IF a = <<>> THEN TRUE
    ELSE IF Head(a) # Head(b) THEN ORD[Head(a)] < ORD[Head(b)]
    ELSE str_less(Tail(a), Tail(b))

\* sorted(ids) for a set of strings
RECURSIVE sorted(_)
sorted(S) ==
    IF S = {} THEN <<>>
    ELSE LET m == CHOOSE a \in S : \A b \in S \ {a} : str_less(a, b)
         IN  <<m>> \o sorted(S \ {m})

\* soup("Placemark"): the positions of the Placemarks, in document order
RECURSIVE placemarks(_, _)
placemarks(doc, i) ==
    IF i > Len(doc) THEN <<>>
    ELSE (IF doc[i].tag = "Placemark" THEN <<i>> ELSE <<>>) \o placemarks(doc, i + 1)

\* lines 295-298 for the Placemarks 0..k-1: the styleUrl child, added when
\* absent, gets the url of the Placemark's color
set_urls(doc, coloring, k) ==
    LET at == placemarks(doc, 1)
    IN  [j \in DOMAIN doc |->
            IF \E i \in 1..k : at[i] = j
            THEN LET i == CHOOSE i \in 1..k : at[i] = j
                 IN  [doc[j] EXCEPT !.has_url = TRUE, !.url = url_of(coloring[i - 1])]
            ELSE doc[j]]

\* apply_color without lines 303-305
remove_nothing(doc, ids) == doc

\* lines 303-305: every Style and StyleMap whose id is in ids is decomposed
remove_styles(doc, ids) ==
    LET stays(e) == ~(e.tag \in {"Style", "StyleMap"} /\ e.has_id /\ e.id \in ids)
    IN  SelectSeq(doc, stays)

\* lines 308-314: the loop over sorted(ids) from its i-th id on.  The right
\* side of each assignment is evaluated before add() builds the child, so a
\* missing key leaves the Style with the children built so far.
RECURSIVE add_styles(_, _, _, _, _, _)
add_styles(doc, order, i, colorize, icons, log) ==
    IF i > Len(order) THEN [doc |-> doc, status |-> "ok", log |-> log]
    ELSE LET id == order[i]
             key == int_char(id[Len(id)])
             style(parts) == Elem("Style", TRUE, id, FALSE, <<>>, parts)
         IN  IF key \notin DOMAIN colorize
             THEN [doc |-> <<style(<<>>)>> \o doc, status |-> "KeyError",
                   log |-> Append(log, id)]
             ELSE IF key \notin DOMAIN icons
             THEN [doc |-> <<style(<<colorize[key], LINE_COLOR>>)>> \o doc,
                   status |-> "KeyError", log |-> Append(log, id)]
             ELSE add_styles(
                      <<style(<<colorize[key], LINE_COLOR, icons[key]>>)>> \o doc,
                      order, i + 1, colorize, icons, Append(log, id))

\* apply_color removing the Styles of the ids in use before it reads the
\* coloring
apply_color_removing_first(doc, coloring, colorize, icons) ==
    LET n == Len(placemarks(doc, 1))
        missing == {i \in 0..(n - 1) : i \notin DOMAIN coloring}
        ids == {Tail(url_of(coloring[i])) : i \in DOMAIN coloring}
    IN  IF missing # {}
        THEN LET k == CHOOSE i \in missing : \A j \in missing : i <= j
             IN  [doc |-> remove_styles(set_urls(doc, coloring, k), ids),
                  status |-> "KeyError", log |-> <<>>]
        ELSE add_styles(remove_styles(set_urls(doc, coloring, n), ids),
                        sorted(ids), 1, colorize, icons, <<>>)

\* apply_color(soup, coloring, colorize, icons): the document it leaves,
\* how it ended, and the ids of the Styles it inserted, in that order
apply_color(doc, coloring, colorize, icons) ==
    LET n == Len(placemarks(doc, 1))
        missing == {i \in 0..(n - 1) : i \notin DOMAIN coloring}
    IN  IF missing # {}
        THEN LET k == CHOOSE i \in missing : \A j \in missing : i <= j
             IN  [doc |-> set_urls(doc, coloring, k), status |-> "KeyError",
                  log |-> <<>>]
        ELSE LET ids == {Tail(url_of(coloring[i])) : i \in 0..(n - 1)}
             IN  add_styles(remove_styles(set_urls(doc, coloring, n), ids),
                            sorted(ids), 1, colorize, icons, <<>>)

\* color with the fuzzy neighbors left out
graph_seamless_only(seamless, fuzzy, scale_arg) == seamless

\* lines 254-257: the graph color hands to the colorer; scale_arg is <<>>
\* for None, else <<scale>>
graph_of(seamless, fuzzy, scale_arg) ==
    IF scale_arg # <<>> THEN seamless \cup fuzzy ELSE seamless

\* no edge of the graph joins two indices of one color
proper(coloring, graph) ==
    \A e \in graph : \A i \in e : \A j \in e : i # j => coloring[i] # coloring[j]


(* ------------------------- coloring inputs --------------------------- *)
\* the color ids a coloring uses
ColorIds == {2, 10}

\* the Styles and StyleMaps a document holds before it is colored
StyleInputs ==
    {<<>>,
     <<Style("Style", Tail(url_of(2)))>>,
     <<Style("StyleMap", Tail(url_of(2))), Style("Style", Tail(url_of(2)))>>,
     <<Style("Style", <<"x">>)>>,
     <<StyleNoId("Style")>>}

PlacemarkInputs == {Placemark(FALSE, <<>>), Placemark(TRUE, <<"#", "x">>)}

RECURSIVE PlacemarkSeqs(_)
PlacemarkSeqs(n) ==
    IF n = 0 THEN {<<>>}
    ELSE {<<p>> \o ps : p \in PlacemarkInputs, ps \in PlacemarkSeqs(n - 1)}

ColorDocs ==
    {ss \o ps : ss \in StyleInputs, ps \in UNION {PlacemarkSeqs(n) : n \in 1..MaxPms}}

\* the tables a caller passes: the defaults, or tables with an entry for
\* every last digit and every color id
ALL_KEYS == 0..10
TableInputs ==
    {[colorize |-> _GREEN_ORANGE, icons |-> _BLURPGRELLOW],
     [colorize |-> [n \in ALL_KEYS |-> entry("colorize", n)], icons |-> _BLURPGRELLOW],
     [colorize |-> [n \in ALL_KEYS |-> entry("colorize", n)],
      icons |-> [n \in ALL_KEYS |-> entry("icons", n)]]}

\* colorings with and without an entry for every Placemark
PartialColorings(n) ==
    UNION {[D -> ColorIds] : D \in SUBSET (0..(n - 1))}
TotalColorings(n) == [0..(n - 1) -> ColorIds]

Edges(n) == {{i, j} : i \in 0..(n - 1), j \in 0..(n - 1)} \ {{i} : i \in 0..(n - 1)}

\* the styleUrl texts of the Placemarks, in document order (<<>> for a
\* Placemark without a styleUrl child)
urls(doc) ==
    LET at == placemarks(doc, 1)
    IN  [i \in DOMAIN at |-> IF doc[at[i]].has_url THEN <<doc[at[i]].url>> ELSE <<>>]

(* -------------------------- input geometries ------------------------- *)
token(x, y) == <<x, y, 0>>

PointInputs == {Point(token(x, y)) : x \in Coords, y \in Coords}

\* two-point paths along a row
LineInputs ==
    {LineString(<<token(e[1], e[3]), token(e[2], e[3])>>) :
        e \in {e \in Coords \X Coords \X Coords : e[1] < e[2]}}

\* closed square rings, by corner and side
Rings ==
    {<<token(e[1], e[2]), token(e[1] + e[3], e[2]),
       token(e[1] + e[3], e[2] + e[3]), token(e[1], e[2] + e[3]),
       token(e[1], e[2])>> :
        e \in {e \in Coords \X Coords \X (1..Extent) :
                  e[1] + e[3] \in Coords /\ e[2] + e[3] \in Coords}}

RECURSIVE RingSeqs(_)
RingSeqs(n) ==
    IF n = 0 THEN {<<>>}
    ELSE {<<r>> \o rs : r \in Rings, rs \in RingSeqs(n - 1)}

\* a Point or LineString has size 1, a Polygon 1 plus the number of its
\* inner boundaries, a MultiGeometry 1 plus the sizes of its children
GeomsOfSize(w, forests) ==
    (IF w = 1 THEN PointInputs \cup LineInputs ELSE {})
    \cup {Polygon(o, is) : o \in Rings, is \in RingSeqs(w - 1)}
    \cup {MultiGeometry(f) : f \in forests[w]}

\* the sequences of geometries of total size w, from the geometries of
\* sizes 1..w and the sequences of sizes 0..w-1
GeomSeqsOfSize(w, geoms, smaller) ==
    UNION {{<<g>> \o f : g \in geoms[k], f \in smaller[w - k + 1]} : k \in 1..w}

\* one definition per size, so that each set is computed once
MaxSeqSize == Max(MaxDocSize, MaxGeomSize - 1)
GeomSeqs0 == {<<>>}
Geoms1 == GeomsOfSize(1, <<GeomSeqs0>>)
GeomSeqs1 ==
    IF MaxSeqSize < 1 THEN {} ELSE GeomSeqsOfSize(1, <<Geoms1>>, <<GeomSeqs0>>)
Geoms2 ==
    IF MaxGeomSize < 2 /\ MaxSeqSize < 2 THEN {}
    ELSE GeomsOfSize(2, <<GeomSeqs0, GeomSeqs1>>)
GeomSeqs2 ==
    IF MaxSeqSize < 2 THEN {}
    ELSE GeomSeqsOfSize(2, <<Geoms1, Geoms2>>, <<GeomSeqs0, GeomSeqs1>>)
Geoms3 ==
    IF MaxGeomSize < 3 /\ MaxSeqSize < 3 THEN {}
    ELSE GeomsOfSize(3, <<GeomSeqs0, GeomSeqs1, GeomSeqs2>>)
GeomSeqs3 ==
    IF MaxSeqSize < 3 THEN {}
    ELSE GeomSeqsOfSize(3, <<Geoms1, Geoms2, Geoms3>>,
                        <<GeomSeqs0, GeomSeqs1, GeomSeqs2>>)
Geoms4 ==
    IF MaxGeomSize < 4 THEN {}
    ELSE GeomsOfSize(4, <<GeomSeqs0, GeomSeqs1, GeomSeqs2, GeomSeqs3>>)

\* the geometries of size 1..MaxGeomSize (at most 4)
Geoms ==
    LET bySize == <<Geoms1, Geoms2, Geoms3, Geoms4>>
    IN  UNION {bySize[w] : w \in 1..Min(MaxGeomSize, 4)}

\* the documents of total size 1..MaxDocSize (at most 3)
Docs ==
    LET bySize == <<GeomSeqs1, GeomSeqs2, GeomSeqs3>>
    IN  UNION {bySize[w] : w \in 1..Min(MaxDocSize, 3)}

(* ------------------------------ get_data ----------------------------- *)
\* A data element of a Placemark: a Data, whose text is the string of its
\* value child, or a SimpleData, whose text is its own string; has_name:
\* it has a name attribute.
DataElem(tag, has_name, name, text) ==
    [tag |-> tag, has_name |-> has_name, name |-> name, text |-> text]

\* the name argument: a str, or a list of strs
Name(s) == [kind |-> "str", s |-> s, items |-> <<>>]
NameList(items) == [kind |-> "list", s |-> "", items |-> items]

\* what a call gives: a str (value), a list of strs (values), or an
\* exception (status)
Returned(value) == [status |-> "ok", value |-> value, values |-> <<>>]
ReturnedList(values) == [status |-> "ok", value |-> <<>>, values |-> values]
Raised(exception) == [status |-> exception, value |-> <<>>, values |-> <<>>]

\* lines 108-110: pm.find, the first matching element in document order
find_data(pm, s) ==
    LET hits == {i \in DOMAIN pm : pm[i].has_name /\ pm[i].name = s}
    IN  IF hits = {} THEN 0 ELSE CHOOSE i \in hits : \A j \in hits : i <= j

\* lines 108-115 for one name
get_one(pm, s) ==
    LET val == find_data(pm, s)
    IN  IF val # 0 THEN Returned(strip(pm[val].text)) ELSE Raised("ValueError")

\* get_data(pm, name).  For a name that is no str, line 106 evaluates the
\* bare name __iter__, which nothing defines: NameError, and line 107 is
\* never reached.
get_data(pm, name) ==
    IF name.kind # "str" THEN Raised("NameError")
    ELSE get_one(pm, name.s)

(* -------------------------- get_data inputs -------------------------- *)
DataNames == {"a", "b"}
DataTexts == {<<"a">>, <<SP, "a", SP>>}

DataElems ==
    {DataElem(tag, TRUE, n, x) : tag \in {"Data", "SimpleData"}, n \in DataNames, x \in DataTexts}
        \cup {DataElem(tag, FALSE, "", x) : tag \in {"Data", "SimpleData"}, x \in DataTexts}

RECURSIVE SeqsUpTo(_, _)
SeqsUpTo(S, n) ==
    IF n = 0 THEN {<<>>}
    ELSE SeqsUpTo(S, n - 1) \cup {Append(q, x) : q \in SeqsUpTo(S, n - 1), x \in S}

DataPlacemarks == SeqsUpTo(DataElems, MaxData)

NameInputs ==
    {Name(s) : s \in DataNames} \cup {NameList(q) : q \in SeqsUpTo(DataNames, MaxData)}

(* --------------------------- specification --------------------------- *)
Last(q) == q[Len(q)]

NoLookup == [name |-> Name(""), result |-> Raised("none")]

NoCall ==
    [op |-> "none", coloring |-> <<>>, seamless |-> {}, fuzzy |-> {},
     scale_arg |-> <<>>, status |-> "none", log |-> <<>>, repeated |-> FALSE,
     before |-> <<>>, prev |-> <<>>]

FormatIdle == hist = <<>> /\ flags = <<>>
ColorIdle  == cdoc = <<>> /\ tables = <<>> /\ call = NoCall
DataIdle   == dpm = <<>> /\ dcall = NoLookup
IndexIdle  ==
    pms = <<>> /\ scale = 0 /\ covers = <<>> /\ index = <<>> /\ called = FALSE

\* hist[1] is the document as parsed; hist[k+1] the document after the k-th
\* call of format, made with flag flags[k]
FormatInit ==
    /\ hist \in {<<d>> : d \in Soups}
    /\ flags = <<>>
    /\ IndexIdle
    /\ ColorIdle
    /\ DataIdle

Format(no_empty) ==
    /\ hist # <<>>
    /\ Len(flags) < MaxRuns
    /\ hist' = Append(hist, format(Last(hist), no_empty))
    /\ flags' = Append(flags, no_empty)
    /\ UNCHANGED <<gvars, cvars, dvars>>

FormatNext == \E no_empty \in BOOLEAN : Format(no_empty)

FormatSpec == FormatInit /\ [][FormatNext]_vars

\* the covering of one Placemark
GeomInit ==
    /\ pms \in {<<g>> : g \in Geoms}
    /\ scale \in Scales
    /\ covers = <<>> /\ index = <<>> /\ called = FALSE
    /\ FormatIdle
    /\ ColorIdle
    /\ DataIdle

\* the index of a document
IndexInit ==
    /\ pms \in Docs
    /\ scale \in Scales
    /\ covers = <<>> /\ index = <<>> /\ called = FALSE
    /\ FormatIdle
    /\ ColorIdle
    /\ DataIdle

SpatialIndex ==
    /\ pms # <<>>
    /\ ~called
    /\ called' = TRUE
    /\ covers' = [i \in DOMAIN pms |-> _spatial_index(pms[i], scale)]
    /\ index' = spatial_index(pms, scale)
    /\ UNCHANGED <<pms, scale, fvars, cvars, dvars>>

IndexNext == SpatialIndex

GeomSpec == GeomInit /\ [][IndexNext]_vars

IndexSpec == IndexInit /\ [][IndexNext]_vars


\* a document and the tables its callers use
ColorInit ==
    /\ cdoc \in ColorDocs
    /\ tables \in TableInputs
    /\ call = NoCall
    /\ FormatIdle
    /\ IndexIdle
    /\ DataIdle

\* what a call leaves in `call`: its arguments, how it ended, the ids it
\* inserted, whether the call before it succeeded with the same coloring,
\* the styleUrl texts it found and the document it found
Called(op, coloring, seamless, fuzzy, scale_arg, result) ==
    [op |-> op, coloring |-> coloring, seamless |-> seamless, fuzzy |-> fuzzy,
     scale_arg |-> scale_arg, status |-> result.status, log |-> result.log,
     repeated |-> (call.status = "ok" /\ call.coloring = coloring),
     before |-> urls(cdoc), prev |-> cdoc]

\* apply_color(soup, coloring, colorize, icons).  A document on which a call
\* failed is discarded.
ApplyColor(coloring) ==
    /\ cdoc # <<>>
    /\ call.status # "KeyError"
    /\ LET result == apply_color(cdoc, coloring, tables.colorize, tables.icons)
       IN  /\ cdoc' = result.doc
           /\ call' = Called("apply_color", coloring, {}, {}, <<>>, result)
    /\ UNCHANGED <<tables, fvars, gvars, dvars>>

\* color(soup, scale, probe_factor, colorize, icons): seamless and fuzzy are
\* what the neighboring collaborators return, coloring what the colorer
\* returns for the graph: a color for every Placemark, proper for the graph
Color(seamless, fuzzy, scale_arg, coloring) ==
    /\ cdoc # <<>>
    /\ call.status # "KeyError"
    /\ proper(coloring, graph_of(seamless, fuzzy, scale_arg))
    /\ LET result == apply_color(cdoc, coloring, tables.colorize, tables.icons)
       IN  /\ cdoc' = result.doc
           /\ call' = Called("color", coloring, seamless, fuzzy, scale_arg, result)
    /\ UNCHANGED <<tables, fvars, gvars, dvars>>

ColorNext ==
    LET n == Len(placemarks(cdoc, 1))
    IN  \/ \E coloring \in PartialColorings(n) : ApplyColor(coloring)
        \/ \E seamless \in SUBSET Edges(n), coloring \in TotalColorings(n) :
              \/ Color(seamless, {}, <<>>, coloring)
              \/ \E fuzzy \in SUBSET Edges(n) : Color(seamless, fuzzy, <<16>>, coloring)

ColorSpec == ColorInit /\ [][ColorNext]_vars

\* a Placemark whose data is looked up
DataInit ==
    /\ dpm \in DataPlacemarks
    /\ dcall = NoLookup
    /\ FormatIdle
    /\ IndexIdle
    /\ ColorIdle

GetData(name) ==
    /\ dcall' = [name |-> name, result |-> get_data(dpm, name)]
    /\ UNCHANGED <<dpm, fvars, gvars, cvars>>

DataNext == \E name \in NameInputs : GetData(name)

DataSpec == DataInit /\ [][DataNext]_vars

(* ------------------------- claims about format ----------------------- *)
\* the text nodes at or below n
RECURSIVE strings_of(_)
strings_of(n) ==
    IF IsTag(n) THEN UNION {strings_of(n.kids[i]) : i \in DOMAIN n.kids}
    ELSE {n}

\* n has a string with leading or trailing whitespace among several
\* children of one element
RECURSIVE has_padded_sibling(_)
has_padded_sibling(n) ==
    /\ IsTag(n)
    /\ \/ /\ Len(n.kids) > 1
          /\ \E i \in DOMAIN n.kids :
                /\ IsText(n.kids[i])
                /\ ~isspace(n.kids[i].s)
                /\ strip(n.kids[i].s) # n.kids[i].s
       \/ \E i \in DOMAIN n.kids : has_padded_sibling(n.kids[i])

\* the root element of a document holds one string and nothing else
root_has_sole_string(soup) ==
    /\ Len(soup.kids) = 1
    /\ IsTag(soup.kids[1])
    /\ Len(soup.kids[1].kids) = 1
    /\ IsText(soup.kids[1].kids[1])

\* the length of s with each of <, > and & replaced once by its entity
RECURSIVE escaped_once_len(_)
escaped_once_len(s) ==
    IF s = <<>> THEN 0
    ELSE (IF Head(s) \in {"<", ">"} THEN 4 ELSE IF Head(s) = "&" THEN 5 ELSE 1)
         + escaped_once_len(Tail(s))

\* C1: a second run of format with the same flag, on the tree a first run
\* produced, changes nothing.
C1_SecondRunChangesNothing ==
    \A k \in 2..Len(flags) : flags[k] = flags[k - 1] => hist[k + 1] = hist[k]

\* C2: after format no string of the tree is whitespace, and none has
\* leading or trailing whitespace.
C2_NoPaddedString ==
    Len(flags) >= 1 =>
        \A n \in strings_of(Last(hist)) : ~isspace(n.s) /\ strip(n.s) = n.s

\* a string that stood padded among siblings was trimmed by the apply
\* phase and is still in the tree
C2_Witness ==
    /\ Len(flags) = 1
    /\ has_padded_sibling(hist[1])
    /\ strings_of(hist[2]) # {}
    /\ root_has_sole_string(hist[2])

\* C3: the only string of an element, when its trimmed text holds <, > or
\* &, becomes a CDATA block exactly when the block with its delimiters is
\* no longer than the text with each special character escaped once.
C3_CDataIffNotLonger ==
    \A k \in 1..Len(flags) :
        (root_has_sole_string(hist[k])
         /\ has_special(strip(hist[k].kids[1].kids[1].s)))
        => LET t == strip(hist[k].kids[1].kids[1].s)
               after == hist[k + 1].kids[1].kids[1]
           IN  (after.kind = "cdata")
               <=> (Len(output_ready(CData(t))) <= escaped_once_len(t))

(* --------------------- claims about spatial_index -------------------- *)
\* the grid cells a returned value stands for: the one cell of a tuple, the
\* elements of a set
cells_of(v) ==
    IF v.py = "tuple" THEN {cell(v.items[1], v.items[2])} ELSE v.elems

GridCells(k) == {cell(x, y) : x \in 0..(2 ^ k - 1), y \in 0..(2 ^ k - 1)}

\* the cells strictly inside a hole: in its fill and not on its rim
interior(inner, k) == hole_fill(inner, k).elems \ hole_rim(inner, k).elems

outer_fill(pg, k) == _cells(coords_from_tag(pg.outer), 2, k, PySet({})).elems

\* C4: the index of a document whose only Placemark is a Point has one key,
\* the cell get_cell returns for the point, and maps it to {0}.
C4_PointHasOneCellKey ==
    (called /\ Len(pms) = 1 /\ pms[1].kind = "Point") =>
        /\ DOMAIN index =
               cells_of(get_cell(coords_from_tag(pms[1].coordinates)[1], scale))
        /\ \A c \in DOMAIN index : index[c] = {0}

\* C5: Placemark i is in index[c] exactly when c is in the covering cell set
\* of Placemark i; every key is a grid cell some Placemark claims, and no
\* key maps to the empty set.
C5_IndexInvertsCoverings ==
    called =>
        /\ \A i \in DOMAIN pms : \A c \in GridCells(scale) :
               (c \in DOMAIN index /\ (i - 1) \in index[c])
               <=> c \in cells_of(covers[i])
        /\ \A c \in DOMAIN index :
               /\ c \in GridCells(scale)
               /\ index[c] # {}
               /\ \E i \in DOMAIN pms : c \in cells_of(covers[i])

\* C6 as claimed: the covering of a polygon holds no cell strictly inside a
\* hole, and holds every cell of the outer fill that is on the rim of some
\* hole.
C6_RimCellsAlwaysKept ==
    (called /\ pms[1].kind = "Polygon") =>
        LET pg == pms[1]
            got == covers[1].elems
        IN  /\ \A h \in DOMAIN pg.inners : got \cap interior(pg.inners[h], scale) = {}
            /\ \A c \in outer_fill(pg, scale) :
                   (\E h \in DOMAIN pg.inners : c \in hole_rim(pg.inners[h], scale).elems)
                   => c \in got

\* C6 as amended: the covering of a polygon holds no cell strictly inside a
\* hole, and holds every cell of the outer fill that is on the rim of some
\* hole and strictly inside no hole.
C6_RimCellsKeptUnlessInsideAHole ==
    (called /\ pms[1].kind = "Polygon") =>
        LET pg == pms[1]
            got == covers[1].elems
        IN  /\ \A h \in DOMAIN pg.inners : got \cap interior(pg.inners[h], scale) = {}
            /\ \A c \in outer_fill(pg, scale) :
                   (/\ \E h \in DOMAIN pg.inners :
                          c \in hole_rim(pg.inners[h], scale).elems
                    /\ \A h \in DOMAIN pg.inners : c \notin interior(pg.inners[h], scale))
                   => c \in got

\* the covering of a polygon with overlapping holes has been computed: a
\* cell of the outer fill is on the rim of one hole and strictly inside
\* another, and a rim cell outside every hole is kept
C6_Witness ==
    /\ called
    /\ pms[1].kind = "Polygon"
    /\ Len(pms[1].inners) >= 2
    /\ \E c \in outer_fill(pms[1], scale) :
          /\ \E h \in DOMAIN pms[1].inners :
                c \in hole_rim(pms[1].inners[h], scale).elems
          /\ \E h \in DOMAIN pms[1].inners : c \in interior(pms[1].inners[h], scale)
    /\ \E c \in covers[1].elems :
          \E h \in DOMAIN pms[1].inners : c \in hole_rim(pms[1].inners[h], scale).elems

\* C7: the cell set of a MultiGeometry is the union of the covering cell
\* sets of its child geometries.
C7_MultiGeometryIsUnionOfChildren ==
    (called /\ pms[1].kind = "MultiGeometry") =>
        covers[1].elems =
            UNION {cells_of(dispatch(pms[1].geoms[i], scale)) : i \in DOMAIN pms[1].geoms}

(* ----------------------- claims about coloring ----------------------- *)
\* the Styles and StyleMaps of a document that carry the id
styles_with(doc, id) ==
    {j \in DOMAIN doc : doc[j].tag \in {"Style", "StyleMap"} /\ doc[j].has_id /\ doc[j].id = id}

\* the ids the latest coloring uses
used_ids == {Tail(url_of(call.coloring[i])) : i \in DOMAIN call.coloring}

\* the number N of the id colorN
RECURSIVE number_of(_, _)
number_of(digits, acc) ==
    IF digits = <<>> THEN acc
    ELSE number_of(Tail(digits), 10 * acc + int_char(Head(digits)))
color_number(id) == number_of(SubSeq(id, 6, Len(id)), 0)

\* C8: after color completes, with a coloring in which no edge of the
\* unioned graph (seamless, and fuzzy when a scale is given) joins two
\* Placemarks of one color, every Placemark i has the styleUrl text #color
\* followed by coloring[i], and the texts of the two ends of every edge differ.
C8_NeighborsGetDifferentStyleUrls ==
    (call.op = "color" /\ call.status = "ok") =>
        LET graph ==
                call.seamless \cup (IF call.scale_arg # <<>> THEN call.fuzzy ELSE {})
            text(i) == urls(cdoc)[i + 1]
        IN  /\ \A i \in DOMAIN call.coloring :
                   text(i) = <<(<<"#", "c", "o", "l", "o", "r">> \o str_int(call.coloring[i]))>>
            /\ \A e \in graph : \A i \in e : \A j \in e : i # j => text(i) # text(j)

\* color completed with a scale, on a graph with an edge that only the
\* fuzzy neighbors give (C8)
C8_Witness ==
    /\ call.op = "color"
    /\ call.status = "ok"
    /\ call.scale_arg # <<>>
    /\ call.fuzzy \ call.seamless # {}

\* C9: when the same coloring is applied a second time, the document holds
\* exactly one style element for every used color id and every styleUrl
\* text is what it was after the first application.
C9_SecondApplicationKeepsOneStylePerId ==
    (call.repeated /\ call.status = "ok") =>
        /\ \A id \in used_ids : Cardinality(styles_with(cdoc, id)) = 1
        /\ urls(cdoc) = call.before

\* the same coloring, with two color ids, was applied twice
C9_Witness ==
    /\ call.repeated
    /\ call.status = "ok"
    /\ Cardinality(used_ids) = 2

\* C10: apply_color inserts the new style elements in ascending order of
\* their color number, each as the first child of the Document.
C10_InsertedInAscendingNumericOrder ==
    call.status = "ok" =>
        /\ \A a \in DOMAIN call.log : \A b \in DOMAIN call.log :
               a < b => color_number(call.log[a]) < color_number(call.log[b])
        /\ \A a \in DOMAIN call.log :
               /\ cdoc[Len(call.log) + 1 - a].tag = "Style"
               /\ cdoc[Len(call.log) + 1 - a].id = call.log[a]

\* C11: for every color id N for which colorize and icons have entries,
\* the Style colorN that apply_color creates has the PolyStyle color
\* colorize[N], the LineStyle color 7fcccccc and the icon icons[N], N being
\* the whole number after "color" in the id.
C11_StyleUsesWholeColorNumber ==
    call.status = "ok" =>
        \A a \in DOMAIN call.log :
            LET style == cdoc[Len(call.log) + 1 - a]
                N == color_number(call.log[a])
            IN  (N \in DOMAIN tables.colorize /\ N \in DOMAIN tables.icons) =>
                    style.parts = <<tables.colorize[N], LINE_COLOR, tables.icons[N]>>

(* -------------------- more claims about format ----------------------- *)
\* the document when the removal of empty elements starts
before_removal(soup) == replace_strip(extract_destroy(traverse(soup)))

\* all kids of the element are elements without children
only_childless_kids(n) ==
    /\ n.kids # <<>>
    /\ \A i \in DOMAIN n.kids : IsTag(n.kids[i]) /\ n.kids[i].kids = <<>>

RECURSIVE count_sum(_, _), count_below(_, _)
\* the number of nodes below n that are text nodes (what = "text"), text
\* nodes that are not all whitespace ("inked"),
\* elements (what = "tag"), elements without children ("childless"),
\* elements with children ("parent") or elements all of whose children
\* are elements without children ("emptied")
count_below(n, what) ==
    LET is(k) ==
            CASE what = "text" -> IsText(k)
              [] what = "inked" -> IsText(k) /\ ~isspace(k.s)
              [] what = "tag" -> IsTag(k)
              [] what = "childless" -> IsTag(k) /\ k.kids = <<>>
              [] what = "parent" -> IsTag(k) /\ k.kids # <<>>
              [] OTHER -> IsTag(k) /\ only_childless_kids(k)
    IN  count_sum([i \in DOMAIN n.kids |->
                      (IF is(n.kids[i]) THEN 1 ELSE 0)
                          + (IF IsTag(n.kids[i]) THEN count_below(n.kids[i], what) ELSE 0)],
                  1)
count_sum(q, i) == IF i > Len(q) THEN 0 ELSE q[i] + count_sum(q, i + 1)

\* C14: with no_empty set, the removal of empty elements runs once: the
\* elements without children at its start are gone, every other element
\* and every text node is still there, and an element whose children were
\* all removed by the pass is still present, without children.
C14_EmptyElementsRemovedOnce ==
    \A r \in DOMAIN flags :
        flags[r] =>
            LET mid == before_removal(hist[r])
                out == hist[r + 1]
            IN  /\ count_below(out, "tag") = count_below(mid, "parent")
                /\ count_below(out, "text") = count_below(mid, "text")
                /\ count_below(out, "childless") = count_below(mid, "emptied")

\* C14: format with no_empty set has left an element without children
\* below the root element
C14_Witness ==
    /\ Len(flags) = 1
    /\ flags[1]
    /\ count_below(before_removal(hist[1]), "emptied") > 0
    /\ \E i \in DOMAIN hist[2].kids :
           IsTag(hist[2].kids[i]) /\ count_below(hist[2].kids[i], "childless") > 0

\* the root element of the document holds one string, all whitespace
root_holds_only_whitespace(soup) ==
    root_has_sole_string(soup) /\ isspace(soup.kids[1].kids[1].s)

\* C15: format removes every text node that is all whitespace and leaves
\* nothing in its place, also when it is the only child of its element:
\* the element then has no children after format(no_empty=False) and is
\* itself removed by format(no_empty=True).
C15_WhitespaceTextLeavesNothing ==
    \A r \in DOMAIN flags :
        /\ count_below(hist[r + 1], "text") = count_below(hist[r], "inked")
        /\ root_holds_only_whitespace(hist[r]) =>
               IF flags[r] THEN hist[r + 1].kids = <<>>
               ELSE hist[r + 1].kids[1].kids = <<>>

(* ----------------------- claims about get_data ----------------------- *)
\* C12: get_data with a list of names, each matching a Data or SimpleData
\* element of the Placemark, returns a list with one trimmed value per
\* name, in the order of the names, each what get_data returns for that
\* name alone.
C12_ListOfNamesGivesListOfValues ==
    LET names == dcall.name.items
    IN  (/\ dcall.name.kind = "list"
         /\ \A i \in DOMAIN names : find_data(dpm, names[i]) # 0) =>
            /\ dcall.result.status = "ok"
            /\ dcall.result.values =
                   [i \in DOMAIN names |-> get_data(dpm, Name(names[i])).value]

\* the Placemark indices for which the latest coloring has no entry
missing_indices ==
    {i \in 0..(Len(placemarks(call.prev, 1)) - 1) : i \notin DOMAIN call.coloring}

first_missing == CHOOSE i \in missing_indices : \A j \in missing_indices : i <= j

\* C13: when the coloring has no entry for some Placemark index,
\* apply_color fails with a lookup error at the smallest such index k; the
\* Placemarks 0..k-1 have their styleUrl set, the Placemarks from k on and
\* every style element are as they were, and no element was added.
C13_MissingIndexStopsBeforeStyles ==
    (call.op # "none" /\ missing_indices # {}) =>
        LET at == placemarks(call.prev, 1)
            set(j) == \E i \in 1..first_missing : at[i] = j
        IN  /\ call.status = "KeyError"
            /\ call.log = <<>>
            /\ Len(cdoc) = Len(call.prev)
            /\ \A j \in DOMAIN cdoc :
                   IF set(j)
                   THEN LET i == CHOOSE i \in 1..first_missing : at[i] = j
                        IN  cdoc[j] = [call.prev[j] EXCEPT
                                          !.has_url = TRUE,
                                          !.url = <<"#", "c", "o", "l", "o", "r">>
                                                      \o str_int(call.coloring[i - 1])]
                   ELSE cdoc[j] = call.prev[j]

\* C13: the coloring misses the second Placemark, and the document held a
\* style with the id of the color of the first
C13_Witness ==
    /\ call.op # "none"
    /\ missing_indices # {}
    /\ first_missing = 1
    /\ styles_with(call.prev, Tail(url_of(call.coloring[0]))) # {}

\* the id has the form colorN
is_color_id(id) ==
    /\ Len(id) > 5
    /\ SubSeq(id, 1, 5) = <<"c", "o", "l", "o", "r">>
    /\ \A i \in 6..Len(id) : \E d \in DOMAIN DIGITS : DIGITS[d] = id[i]

\* C16: after any sequence of successful apply_color calls on a document
\* no style definition is stale: every Style or StyleMap whose id has the
\* form colorN is referenced by the styleUrl of some Placemark under the
\* latest coloring.
C16_NoStaleStyle ==
    (call.op = "apply_color" /\ call.status = "ok") =>
        \A j \in DOMAIN cdoc :
            (/\ cdoc[j].tag \in {"Style", "StyleMap"}
             /\ cdoc[j].has_id
             /\ is_color_id(cdoc[j].id)) =>
                \E i \in DOMAIN cdoc :
                    /\ cdoc[i].tag = "Placemark"
                    /\ cdoc[i].has_url
                    /\ cdoc[i].url = <<"#">> \o cdoc[j].id

(* -------------------- more claims about _spdx_pg --------------------- *)
Reverse(q) == [i \in DOMAIN q |-> q[Len(q) + 1 - i]]

\* C17: for a polygon with inner boundaries h1..hk, _spdx_pg returns the
\* outer fill minus the union of the cells strictly inside each hole (its
\* fill minus its rim, computed from that hole alone), so the result is
\* the same with the inner boundaries in the opposite order.
C17_HolesSubtractedIndependently ==
    (called /\ pms[1].kind = "Polygon") =>
        LET pg == pms[1]
        IN  /\ covers[1].elems =
                   outer_fill(pg, scale)
                       \ UNION {interior(pg.inners[h], scale) : h \in DOMAIN pg.inners}
            /\ _spdx_pg([pg EXCEPT !.inners = Reverse(pg.inners)], scale) = covers[1]

\* C17: the covering of a polygon with two holes has been computed, each
\* hole taking a cell from the outer fill that the other leaves
C17_Witness ==
    /\ called
    /\ pms[1].kind = "Polygon"
    /\ Len(pms[1].inners) = 2
    /\ LET lost(h) == outer_fill(pms[1], scale) \cap interior(pms[1].inners[h], scale)
       IN  lost(1) \ lost(2) # {} /\ lost(2) \ lost(1) # {}

====
